---- MODULE Spec2Model ----
(***************************************************************************)
(* Buddy allocator of kernel/mem/buddy.c: the page descriptor table, the   *)
(* per-order free lists, buddy_split, buddy_merge, buddy_find, page_alloc, *)
(* page_free and page_decref, driven by callers that follow the contract   *)
(* of page_alloc (set pp_ref to 1, decref once).                           *)
(*                                                                         *)
(* Addresses are kept as the code keeps them: a descriptor index is turned *)
(* into a physical address (page2pa), the buddy is found by flipping one   *)
(* address bit, and the address is turned back into an index (pa2page).    *)
(* An access outside buddy_free_list[0..BUDDY_MAX_ORDER-1] or outside      *)
(* pages[0..npages-1] is undefined behaviour: what an out-of-bounds read   *)
(* sees is a choice of the environment (oob), and a write through it ends  *)
(* in the state fault # "none".                                            *)
(***************************************************************************)
EXTENDS Integers, Sequences, FiniteSets

\* ---------------------------------------------------------------- bounds
\* Number of page descriptors (npages) of the modelled machine.
npages == 9
\* Number of buddy orders (scaled down from the kernel's value).
BUDDY_MAX_ORDER == 3
\* Number of calls the callers make in one run.
MaxOps == 7
\* Largest number of holders that share one page.
MaxShare == 2
\* Calls in a run of SpecDeep.
DeepOps == 8

\* ------------------------------------------------------------- constants
PAGE_SIZE == 4096
BUDDY_4K_PAGE == 0
\* The huge page is the largest order the free lists hold.
BUDDY_2M_PAGE == BUDDY_MAX_ORDER - 1
ALLOC_ZERO == 1
ALLOC_HUGE == 2
\* pp_ref is a 16-bit counter.
REF_BITS == 16

NULL == 0 - 1
PageIdx == 0 .. (npages - 1)
Orders == 0 .. (BUDDY_MAX_ORDER - 1)
AllocFlags == {0, ALLOC_ZERO, ALLOC_HUGE, ALLOC_ZERO + ALLOC_HUGE}

VARIABLES
  pages,            \* descriptor table: pp_order, pp_free, pp_ref per page
  buddy_free_list,  \* per order, the linked descriptors, head of list first
  mem,              \* per page: 0 when the frame reads as zero, 1 otherwise
  fault,            \* "none", or the out-of-bounds access that happened
  held,             \* caller side: held[p][k] = outstanding allocations of p at order k
  ret,              \* what the last page_alloc returned and has not been taken
  pc,               \* "idle", or "returned" between page_alloc and its caller
  last,             \* the last call made
  nops,             \* calls made so far
  seeded,           \* number of pages the seeding put into the free lists
  next_free         \* boot_alloc's static pointer: next byte of free memory, 0 is NULL

vars == <<pages, buddy_free_list, mem, fault, held, ret, pc, last, nops, seeded, next_free>>

\* ------------------------------------------------------------ arithmetic
RECURSIVE Pow2(_)
Pow2(n) == IF n <= 0 THEN 1 ELSE 2 * Pow2(n - 1)

\* x ^ bit for a bit that is a power of two.
XorBit(x, bit) == IF (x \div bit) % 2 = 1 THEN x - bit ELSE x + bit

page2pa(p) == p * PAGE_SIZE
\* The index of the descriptor of pa; it is a valid descriptor only when < npages.
pa2page(pa) == pa \div PAGE_SIZE
InTable(p) == p \in PageIdx

HasFlag(flags, f) == (flags \div f) % 2 = 1

\* ------------------------------------------------------------------ lists
\* list_add: link node right after the head of list k.
list_add(fl, k, p) == [fl EXCEPT ![k] = <<p>> \o @]
\* list_del: unlink node from the list it is linked in (nothing to do when it
\* is linked in none).
list_del(fl, p) == [k \in DOMAIN fl |-> SelectSeq(fl[k], LAMBDA x : x # p)]
list_is_empty(fl, k) == fl[k] = <<>>
\* list_pop: unlink and return the first node of list k.
list_pop(fl, k) == [node |-> Head(fl[k]), fl |-> list_del(fl, Head(fl[k]))]

SeqToSet(s) == {s[i] : i \in DOMAIN s}
Linked(fl, p) == \E k \in DOMAIN fl : p \in SeqToSet(fl[k])

\* count_free_pages: the number of nodes in list order.
count_free_pages(fl, order) ==
  IF order >= BUDDY_MAX_ORDER THEN 0 ELSE Len(fl[order])

RECURSIVE SumFree(_, _)
SumFree(fl, order) ==
  IF order >= BUDDY_MAX_ORDER THEN 0
  ELSE count_free_pages(fl, order) * Pow2(order) + SumFree(fl, order + 1)

count_total_free_pages(fl) == SumFree(fl, 0)

\* --------------------------------------------------------- kernel state
\* The part of the state the allocator's functions read and write, with the
\* value they return in page.
Kernel(pg, fl, m) == [pages |-> pg, fl |-> fl, mem |-> m, fault |-> "none", page |-> NULL]

\* ------------------------------------------------------------ buddy_split
RECURSIVE buddy_split(_, _, _)
buddy_split(K, lhs, req_order) ==
  IF K.pages[lhs].pp_order <= req_order
  THEN [K EXCEPT !.page = lhs]
  ELSE LET order    == K.pages[lhs].pp_order - 1
           lhs_pa   == page2pa(lhs)
           buddy_pa == XorBit(lhs_pa, PAGE_SIZE * Pow2(K.pages[lhs].pp_order - 1))
           buddy    == pa2page(buddy_pa)
           K1       == [K EXCEPT !.pages[lhs].pp_order = order,
                                 !.pages[lhs].pp_free = FALSE]
       IN IF ~InTable(buddy)
          THEN \* buddy->pp_order is written outside the descriptor table
               [K1 EXCEPT !.fault = "page_oob", !.page = NULL]
          ELSE buddy_split(
                 [K1 EXCEPT !.pages[buddy].pp_order = order,
                            !.pages[buddy].pp_free = TRUE,
                            !.fl = list_add(K1.fl, order, buddy)],
                 lhs, req_order)

\* ------------------------------------------------------------ buddy_merge
\* The statements after the loop: mark the page free and link it.
MergeFinish(K, page) ==
  LET K1 == [K EXCEPT !.pages[page].pp_free = TRUE, !.page = page]
      k  == K.pages[page].pp_order
  IN IF k \in Orders
     THEN [K1 EXCEPT !.fl = list_add(K.fl, k, page)]
     ELSE \* list_add on buddy_free_list[k] with k >= BUDDY_MAX_ORDER
          [K1 EXCEPT !.fault = "list_oob"]

\* The while loop, entered with the local variable order; oob is what a read
\* of a descriptor outside the table sees (TRUE: a free buddy of this order).
RECURSIVE MergeLoop(_, _, _, _)
MergeLoop(K, page, order, oob) ==
  IF ~(order < BUDDY_MAX_ORDER)
  THEN MergeFinish(K, page)
  ELSE LET page_pa  == page2pa(page)
           buddy_pa == XorBit(page_pa, PAGE_SIZE * Pow2(K.pages[page].pp_order))
           buddy    == pa2page(buddy_pa)
       IN IF ~InTable(buddy)
          THEN IF oob
               THEN \* list_del and the stores go through a descriptor outside the table
                    [K EXCEPT !.fault = "page_oob", !.page = page]
               ELSE MergeFinish(K, page)
          ELSE IF ~K.pages[buddy].pp_free \/ K.pages[buddy].pp_order # order
               THEN MergeFinish(K, page)
               ELSE LET page1 == IF buddy_pa < page_pa THEN buddy ELSE page
                        K1 == [K EXCEPT !.fl = list_del(K.fl, buddy),
                                        !.pages[buddy].pp_order = order + 1,
                                        !.pages[buddy].pp_free = FALSE]
                        K2 == [K1 EXCEPT !.pages[page1].pp_order = order + 1,
                                         !.pages[page1].pp_free = FALSE]
                    IN MergeLoop(K2, page1, order + 1, oob)

buddy_merge(K, page, oob) == MergeLoop(K, page, K.pages[page].pp_order, oob)

\* ------------------------------------------------------------- buddy_find
\* The for loop from order on; oob is what list_is_empty sees when it reads
\* buddy_free_list[BUDDY_MAX_ORDER] (TRUE: a list that is not empty).
RECURSIVE FindLoop(_, _, _, _)
FindLoop(K, req_order, order, oob) ==
  IF ~(order <= BUDDY_MAX_ORDER)
  THEN [K EXCEPT !.page = NULL]
  ELSE IF order \notin Orders
       THEN IF oob
            THEN \* list_pop unlinks a node that is no descriptor
                 [K EXCEPT !.fault = "list_oob", !.page = NULL]
            ELSE FindLoop(K, req_order, order + 1, oob)
       ELSE IF ~list_is_empty(K.fl, order)
            THEN LET popped == list_pop(K.fl, order)
                     K1 == [K EXCEPT !.fl = popped.fl]
                 IN IF order > req_order
                    THEN buddy_split(K1, popped.node, req_order)
                    ELSE [K1 EXCEPT !.page = popped.node]
            ELSE FindLoop(K, req_order, order + 1, oob)

buddy_find(K, req_order, oob) == FindLoop(K, req_order, req_order, oob)

\* ------------------------------------------------------------- page_alloc
\* memset(page2kva(page), 0, PAGE_SIZE << order): the frames it clears.
Span(page, order) == page .. (page + Pow2(order) - 1)

memset0(K, page, order) ==
  LET K1 == [K EXCEPT !.mem = [q \in PageIdx |->
                                 IF q \in Span(page, order) THEN 0 ELSE K.mem[q]]]
  IN IF Span(page, order) \subseteq PageIdx
     THEN K1
     ELSE [K1 EXCEPT !.fault = "mem_oob"]

\* page_alloc as it would be if it took the first reference itself.
page_alloc_takes_ref(K, alloc_flags, oob) ==
  LET order == IF HasFlag(alloc_flags, ALLOC_HUGE) THEN BUDDY_2M_PAGE ELSE BUDDY_4K_PAGE
      F == buddy_find(K, order, oob)
  IN IF F.fault # "none" \/ F.page = NULL
     THEN F
     ELSE LET G == [F EXCEPT !.pages[F.page].pp_ref = 1]
          IN IF HasFlag(alloc_flags, ALLOC_ZERO)
             THEN memset0(G, G.page, G.pages[G.page].pp_order)
             ELSE G

page_alloc(K, alloc_flags, oob) ==
  LET order == IF HasFlag(alloc_flags, ALLOC_HUGE) THEN BUDDY_2M_PAGE ELSE BUDDY_4K_PAGE
      F == buddy_find(K, order, oob)
  IN IF F.fault # "none" \/ F.page = NULL
     THEN F
     ELSE IF HasFlag(alloc_flags, ALLOC_ZERO)
          THEN memset0(F, F.page, F.pages[F.page].pp_order)
          ELSE F

\* -------------------------------------------------- page_free, page_decref
page_free(K, pp, oob) == buddy_merge(K, pp, oob)

page_decref(K, pp, oob) ==
  LET ref == (K.pages[pp].pp_ref - 1) % Pow2(REF_BITS)
      K1  == [K EXCEPT !.pages[pp].pp_ref = ref]
  IN IF ref = 0 THEN page_free(K1, pp, oob) ELSE K1

\* ------------------------------------------------------------------- Init
\* The free lists are seeded from one free region lo..hi-1 of the memory map:
\* the region becomes the maximal aligned buddy blocks it contains; every
\* other descriptor is zeroed and never freed.
BlockBase(p, k) == p - (p % Pow2(k))

SeedHead(lo, hi, p, k) ==
  /\ p % Pow2(k) = 0
  /\ Span(p, k) \subseteq lo .. (hi - 1)
  /\ \/ k = BUDDY_MAX_ORDER - 1
     \/ ~(Span(BlockBase(p, k + 1), k + 1) \subseteq lo .. (hi - 1))

SeedOrder(lo, hi, p) ==
  IF \E k \in Orders : SeedHead(lo, hi, p, k)
  THEN CHOOSE k \in Orders : SeedHead(lo, hi, p, k)
  ELSE NULL

\* The heads of order k in ascending address order.
RECURSIVE SeedList(_, _, _, _)
SeedList(lo, hi, k, p) ==
  IF p >= npages THEN <<>>
  ELSE (IF SeedHead(lo, hi, p, k) THEN <<p>> ELSE <<>>) \o SeedList(lo, hi, k, p + 1)

HoldOrders == {BUDDY_4K_PAGE, BUDDY_2M_PAGE}

Init ==
  \E lo \in 0 .. npages, hi \in 0 .. npages :
    /\ lo < hi
    /\ pages = [p \in PageIdx |->
                  [pp_order |-> IF SeedOrder(lo, hi, p) = NULL THEN 0 ELSE SeedOrder(lo, hi, p),
                   pp_free  |-> SeedOrder(lo, hi, p) # NULL,
                   pp_ref   |-> 0]]
    /\ buddy_free_list = [k \in Orders |-> SeedList(lo, hi, k, 0)]
    /\ mem = [p \in PageIdx |-> 1]
    /\ fault = "none"
    /\ held = [h \in PageIdx \X HoldOrders |-> 0]
    /\ ret = NULL
    /\ pc = "idle"
    /\ last = [op |-> "none", arg |-> 0, page |-> NULL]
    /\ nops = 0
    /\ seeded = hi - lo
    /\ next_free = lo * PAGE_SIZE

\* ---------------------------------------------------------------- actions
Now == Kernel(pages, buddy_free_list, mem)

Install(K) ==
  /\ pages' = K.pages
  /\ buddy_free_list' = K.fl
  /\ mem' = K.mem
  /\ fault' = K.fault

\* A caller calls page_alloc(alloc_flags).
PageAlloc(alloc_flags, oob) ==
  /\ pc = "idle"
  /\ fault = "none"
  /\ nops < MaxOps
  /\ LET K == page_alloc(Now, alloc_flags, oob)
     IN /\ Install(K)
        /\ ret' = K.page
        /\ pc' = IF K.fault = "none" THEN "returned" ELSE "idle"
        /\ last' = [op |-> "alloc", arg |-> alloc_flags, page |-> K.page]
  /\ nops' = nops + 1
  /\ UNCHANGED <<held, seeded, next_free>>

ReqOrder(alloc_flags) ==
  IF HasFlag(alloc_flags, ALLOC_HUGE) THEN BUDDY_2M_PAGE ELSE BUDDY_4K_PAGE

\* The caller takes what page_alloc returned: a page becomes its own, with
\* reference count 1; NULL it gives up on.
TakePage ==
  /\ pc = "returned"
  /\ ret # NULL
  /\ pages' = [pages EXCEPT ![ret].pp_ref = 1]
  /\ held' = [held EXCEPT ![<<ret, ReqOrder(last.arg)>>] = @ + 1]
  /\ ret' = NULL
  /\ pc' = "idle"
  /\ UNCHANGED <<buddy_free_list, mem, fault, last, nops, seeded, next_free>>

TakeNull ==
  /\ pc = "returned"
  /\ ret = NULL
  /\ pc' = "idle"
  /\ UNCHANGED <<pages, buddy_free_list, mem, fault, held, ret, last, nops, seeded, next_free>>

\* A holder of pp, which has written to its frames, gives it up with
\* page_decref(pp).
PageDecref(pp, k, oob) ==
  /\ pc = "idle"
  /\ fault = "none"
  /\ nops < MaxOps
  /\ held[<<pp, k>>] > 0
  /\ LET dirty == [q \in PageIdx |-> IF q \in Span(pp, k) THEN 1 ELSE mem[q]]
         K == page_decref(Kernel(pages, buddy_free_list, dirty), pp, oob)
     IN /\ Install(K)
        /\ last' = [op |-> "decref", arg |-> pp, page |-> K.page]
  /\ held' = [held EXCEPT ![<<pp, k>>] = @ - 1]
  /\ nops' = nops + 1
  /\ UNCHANGED <<ret, pc, seeded, next_free>>

Next ==
  \/ \E alloc_flags \in AllocFlags, oob \in BOOLEAN : PageAlloc(alloc_flags, oob)
  \/ TakePage
  \/ TakeNull
  \/ \E pp \in PageIdx, k \in HoldOrders, oob \in BOOLEAN : PageDecref(pp, k, oob)

Spec == Init /\ [][Next]_vars

\* A caller that breaks the contract of page_free: it calls page_free(pp) for
\* a descriptor that is linked in a free list or whose pp_ref is not zero. A
\* run is followed up to the first such call (pc = "misused").
PageFreeCall(pp, oob) ==
  /\ pc = "idle"
  /\ fault = "none"
  /\ nops < MaxOps
  /\ Linked(buddy_free_list, pp) \/ pages[pp].pp_ref # 0
  /\ LET K == page_free(Now, pp, oob)
     IN /\ Install(K)
        /\ last' = [op |-> "free", arg |-> pp, page |-> K.page]
  /\ nops' = nops + 1
  /\ pc' = "misused"
  /\ UNCHANGED <<held, ret, seeded, next_free>>

NextFree ==
  \/ Next
  \/ \E pp \in PageIdx, oob \in BOOLEAN : PageFreeCall(pp, oob)

SpecFree == Init /\ [][NextFree]_vars

\* ------------------------------------------------------ derived notions
\* The blocks linked in the free lists and the blocks callers hold, as
\* <<base page, order>>; a block page_alloc has returned and its caller has
\* not yet taken counts as held.
FreeBlocks == {b \in PageIdx \X Orders : b[1] \in SeqToSet(buddy_free_list[b[2]])}
HeldBlocks == {h \in PageIdx \X HoldOrders : held[h] > 0}
InFlight ==
  IF pc = "returned" /\ ret # NULL THEN {<<ret, ReqOrder(last.arg)>>} ELSE {}
BlockPages(B) == UNION {Span(b[1], b[2]) : b \in B}

RECURSIVE SumHeld(_)
SumHeld(S) ==
  IF S = {} THEN 0
  ELSE LET h == CHOOSE x \in S : TRUE
       IN held[h] * Pow2(h[2]) + SumHeld(S \ {h})

HeldPageCount ==
  SumHeld(PageIdx \X HoldOrders) + Cardinality(BlockPages(InFlight))

\* C1: every block is either free and in the registry or held by exactly one
\* holder: no page belongs both to a block linked in a free list and to a
\* held block, no two held blocks share a page, and page_alloc never returns a
\* block sharing a page with a block that is still held.
C1_ExclusiveOwnership ==
  /\ BlockPages(FreeBlocks) \cap BlockPages(HeldBlocks \cup InFlight) = {}
  /\ \A h \in HeldBlocks : held[h] = 1
  /\ \A g, h \in HeldBlocks \cup InFlight :
       g # h => Span(g[1], g[2]) \cap Span(h[1], h[2]) = {}
  /\ \A h \in InFlight : held[h] = 0

\* C2: a descriptor has pp_free set if and only if it is linked in a free
\* list, at the index equal to its pp_order; the block page_alloc returns
\* has pp_free clear.
C2_FreeIffLinked ==
  /\ \A p \in PageIdx :
       pages[p].pp_free <=>
         /\ Linked(buddy_free_list, p)
         /\ \A k \in Orders :
              p \in SeqToSet(buddy_free_list[k]) => k = pages[p].pp_order
  /\ (pc = "returned" /\ ret # NULL) => ~pages[ret].pp_free

\* C3: every descriptor in free list k has pp_order = k and pp_free set, and
\* no descriptor is in two lists or twice in one list.
C3_FreeListExact ==
  /\ \A k \in Orders : \A i \in DOMAIN buddy_free_list[k] :
       LET p == buddy_free_list[k][i]
       IN /\ pages[p].pp_order = k
          /\ pages[p].pp_free
          /\ \A j \in DOMAIN buddy_free_list[k] : buddy_free_list[k][j] = p => j = i
          /\ \A m \in Orders : m # k => p \notin SeqToSet(buddy_free_list[m])

\* C4: the pages count_total_free_pages reports plus the pages of the blocks
\* callers hold are the pages seeded at initialisation.
C4_Conservation ==
  count_total_free_pages(buddy_free_list) + HeldPageCount = seeded

\* A step that is a call of page_alloc(f), and one that is a call of page_decref.
AllocStep(f) == nops' = nops + 1 /\ last'.op = "alloc" /\ last'.arg = f
DecrefStep(pp) == nops' = nops + 1 /\ last'.op = "decref" /\ last'.arg = pp

Min(a, b) == IF a < b THEN a ELSE b
TrueBuddies(a, b) == (a - b = 1 \/ b - a = 1) /\ Min(a, b) % 2 = 0

\* C5: two order-0 pages allocated one by one from two seeded pages and then
\* both given up with page_decref end as one order-1 block headed by the
\* lower page if and only if they are buddies, and as two order-0 entries
\* otherwise. (After three calls of which the last is a page_decref, with one
\* block held, the calls were page_alloc, page_alloc, page_decref.)
C5_TwoPagesScenario ==
  [][\A b \in PageIdx :
       ( /\ seeded = 2 /\ nops = 3 /\ pc = "idle" /\ last.op = "decref"
         /\ HeldBlocks = {<<b, BUDDY_4K_PAGE>>}
         /\ held[<<b, BUDDY_4K_PAGE>>] = 1
         /\ DecrefStep(b) )
       => LET a == last.arg
          IN IF TrueBuddies(a, b)
             THEN buddy_free_list' =
                    [k \in Orders |-> IF k = 1 THEN <<Min(a, b)>> ELSE <<>>]
             ELSE /\ Len(buddy_free_list'[0]) = 2
                  /\ SeqToSet(buddy_free_list'[0]) = {a, b}
                  /\ \A k \in Orders \ {0} : buddy_free_list'[k] = <<>>
    ]_vars

\* The lowest order at or above j whose free list is not empty (NULL: none).
LowestNonEmpty(j) ==
  IF \E k \in Orders : k >= j /\ buddy_free_list[k] # <<>>
  THEN CHOOSE k \in Orders :
         /\ k >= j /\ buddy_free_list[k] # <<>>
         /\ \A m \in Orders : (m >= j /\ buddy_free_list[m] # <<>>) => k <= m
  ELSE NULL

\* C6: page_alloc at order j, when the lowest non-empty list at or above j is
\* k > j, takes the first block B of list k, returns B's base descriptor (the
\* lowest-addressed one: every half the split publishes lies above it) with
\* order j and linked in no list, adds exactly one block to each list i with
\* j <= i < k and leaves every other list unchanged.
C6_SplitOnAlloc ==
  [][\A f \in AllocFlags :
       ( /\ pc = "idle" /\ fault = "none" /\ AllocStep(f)
         /\ LowestNonEmpty(ReqOrder(f)) > ReqOrder(f) )
       => LET j == ReqOrder(f)
              k == LowestNonEmpty(j)
              B == Head(buddy_free_list[k])
          IN /\ pc' = "returned" /\ ret' = B
             /\ pages'[B].pp_order = j
             /\ ~Linked(buddy_free_list', B)
             /\ \A i \in Orders :
                  buddy_free_list'[i] =
                    IF i = k THEN Tail(buddy_free_list[k])
                    ELSE IF j <= i /\ i < k THEN <<buddy_free_list'[i][1]>> \o buddy_free_list[i]
                    ELSE buddy_free_list[i]
             /\ \A i \in Orders : (j <= i /\ i < k) =>
                  /\ Len(buddy_free_list'[i]) = 1
                  /\ buddy_free_list'[i][1] > B
    ]_vars

AllEmpty == \A k \in Orders : buddy_free_list[k] = <<>>

\* C7: page_alloc, with any flags, called when every free list is empty
\* returns NULL every time and changes no descriptor and no free list.
C7_ExhaustedIdempotent ==
  [][\A f \in AllocFlags :
       (pc = "idle" /\ fault = "none" /\ AllEmpty /\ AllocStep(f))
       => /\ pc' = "returned" /\ ret' = NULL /\ fault' = "none"
          /\ pages' = pages
          /\ buddy_free_list' = buddy_free_list
    ]_vars

\* C8: page_alloc with ALLOC_HUGE returns NULL and changes no free list
\* whenever every list at or above the huge order is empty, whatever smaller
\* blocks are free; it returns a page only if such a list held a block.
C8_HugeNeedsHugeBlock ==
  [][\A f \in AllocFlags :
       ( /\ pc = "idle" /\ fault = "none" /\ HasFlag(f, ALLOC_HUGE) /\ AllocStep(f)
         /\ \A k \in Orders : k >= BUDDY_2M_PAGE => buddy_free_list[k] = <<>> )
       => /\ pc' = "returned" /\ ret' = NULL /\ fault' = "none"
          /\ buddy_free_list' = buddy_free_list
    ]_vars

\* C10: page_alloc leaves the pp_ref of every descriptor unchanged, whether
\* it returns a page or NULL and whatever the flags.
C10_AllocKeepsRef ==
  [][\A f \in AllocFlags :
       (pc = "idle" /\ AllocStep(f))
       => \A p \in PageIdx : pages'[p].pp_ref = pages[p].pp_ref
    ]_vars

\* C10 is reached: page_alloc with ALLOC_ZERO has split a block, the buddy of
\* the returned page is linked, the returned page has pp_ref 0 and another
\* page is held with pp_ref 1.
C10_Witness ==
  /\ pc = "returned" /\ ret # NULL /\ last.op = "alloc"
  /\ HasFlag(last.arg, ALLOC_ZERO)
  /\ pages[ret].pp_ref = 0
  /\ ret + 1 \in PageIdx /\ Linked(buddy_free_list, ret + 1)
  /\ \E p \in PageIdx : p # ret /\ pages[p].pp_ref = 1 /\ held[<<p, BUDDY_4K_PAGE>>] = 1

FreeStep(pp) == nops' = nops + 1 /\ last'.op = "free" /\ last'.arg = pp

\* C9: page_free of a descriptor that is linked in a free list, or whose
\* pp_ref is not zero, ends in a panic and changes no free list and no
\* descriptor.
C9_IllegalFreeRefused ==
  [][\A pp \in PageIdx :
       ( /\ pc = "idle" /\ fault = "none" /\ FreeStep(pp)
         /\ Linked(buddy_free_list, pp) \/ pages[pp].pp_ref # 0 )
       => /\ fault' = "panic"
          /\ pages' = pages
          /\ buddy_free_list' = buddy_free_list
    ]_vars

\* C11: a page_alloc with ALLOC_ZERO that returns a page leaves every frame
\* of the returned block (one frame, or the whole huge span with ALLOC_HUGE)
\* reading as zero, and clears no frame outside the returned block.
C11_ZeroFill ==
  [][\A f \in AllocFlags :
       ( /\ pc = "idle" /\ fault = "none" /\ AllocStep(f) /\ HasFlag(f, ALLOC_ZERO)
         /\ ret' # NULL )
       => /\ fault' = "none"
          /\ Span(ret', ReqOrder(f)) \subseteq PageIdx
          /\ \A q \in PageIdx :
               mem'[q] = IF q \in Span(ret', ReqOrder(f)) THEN 0 ELSE mem[q]
    ]_vars

\* ------------------------------------------------------- shared holders
\* A holder of pp shares it with another holder, which takes a reference of
\* its own (pp_ref++ is the callers' part of the contract of page_alloc).
PageIncref(pp, k) ==
  /\ pc = "idle"
  /\ fault = "none"
  /\ nops < MaxOps
  /\ held[<<pp, k>>] > 0
  /\ held[<<pp, k>>] < MaxShare
  /\ pages[pp].pp_ref < MaxShare
  /\ pages' = [pages EXCEPT ![pp].pp_ref = @ + 1]
  /\ held' = [held EXCEPT ![<<pp, k>>] = @ + 1]
  /\ last' = [op |-> "incref", arg |-> pp, page |-> NULL]
  /\ nops' = nops + 1
  /\ UNCHANGED <<buddy_free_list, mem, fault, ret, pc, seeded, next_free>>

NextShare ==
  \/ Next
  \/ \E pp \in PageIdx, k \in HoldOrders : PageIncref(pp, k)

SpecShare == Init /\ [][NextShare]_vars

\* C12: page_decref of a held block with pp_ref n >= 1 lowers pp_ref by one and
\* calls page_free if and only if the new count is zero; a block whose count
\* is positive is linked in no free list, and a page_decref that leaves the
\* count positive changes no free list.
C12_DecrefReleasesAtZero ==
  [][\A pp \in PageIdx :
       ( /\ pc = "idle" /\ fault = "none" /\ DecrefStep(pp)
         /\ pages[pp].pp_ref >= 1 )
       => /\ ~Linked(buddy_free_list, pp)
          /\ pp \notin BlockPages(FreeBlocks)
          /\ pages'[pp].pp_ref = pages[pp].pp_ref - 1
          /\ (last'.page # NULL) <=> (pages'[pp].pp_ref = 0)
          /\ pages'[pp].pp_ref > 0 =>
               /\ buddy_free_list' = buddy_free_list
               /\ ~Linked(buddy_free_list', pp)
    ]_vars

\* ------------------------------------------------ split and merge alone
\* The first block of free list k is unlinked, split down to order j with
\* buddy_split and the page buddy_split returns is handed to buddy_merge at
\* once. A run is followed up to the first such step (pc = "law").
SplitMerge(j, k, oob) ==
  /\ pc = "idle"
  /\ fault = "none"
  /\ nops < MaxOps
  /\ j < k
  /\ ~list_is_empty(buddy_free_list, k)
  /\ LET popped == list_pop(buddy_free_list, k)
         K1 == Kernel(pages, popped.fl, mem)
         K2 == buddy_split(K1, popped.node, j)
         K3 == IF K2.fault = "none" THEN buddy_merge(K2, K2.page, oob) ELSE K2
     IN /\ Install(K3)
        /\ last' = [op |-> "splitmerge", arg |-> k, page |-> K3.page, j |-> j]
  /\ nops' = nops + 1
  /\ pc' = "law"
  /\ UNCHANGED <<held, ret, seeded, next_free>>

NextLaw ==
  \/ Next
  \/ \E j \in Orders, k \in Orders, oob \in BOOLEAN : SplitMerge(j, k, oob)

SpecLaw == Init /\ [][NextLaw]_vars

LawStep(j, k) ==
  nops' = nops + 1 /\ last'.op = "splitmerge" /\ last'.arg = k /\ last'.j = j

\* The buddy of block p at order k (the descriptor index, in the table or not).
BuddyOf(p, k) == pa2page(XorBit(page2pa(p), PAGE_SIZE * Pow2(k)))

\* C13: unlinking a free order-k block, splitting it down to order j < k and
\* merging the returned block at once, while the order-k buddy of the block
\* is not free (linked in no free list), leaves the block free at order k at
\* its base and the free lists as they were.
C13_SplitMergeInverse ==
  [][\A j \in Orders, k \in Orders :
       ( /\ pc = "idle" /\ fault = "none" /\ LawStep(j, k)
         /\ ~Linked(buddy_free_list, BuddyOf(Head(buddy_free_list[k]), k)) )
       => LET B == Head(buddy_free_list[k])
          IN /\ fault' = "none"
             /\ buddy_free_list' = buddy_free_list
             /\ last'.page = B
             /\ pages'[B].pp_order = k /\ pages'[B].pp_free
    ]_vars

\* C14: buddy_merge stops at the largest order: no descriptor carries order
\* BUDDY_MAX_ORDER, every free block has an order below BUDDY_MAX_ORDER, and
\* no page_decref ends with an insertion at buddy_free_list[BUDDY_MAX_ORDER].
C14_MergeStopsAtMaxOrder ==
  /\ \A p \in PageIdx : pages[p].pp_order \in Orders
  /\ ~(last.op = "decref" /\ fault = "list_oob")

\* The free-list indices the for loop of buddy_find passes to list_is_empty:
\* order runs from req_order while order <= BUDDY_MAX_ORDER and stops at the
\* first index whose list is not empty.
FindInspected(fl, req_order) ==
  { order \in req_order .. BUDDY_MAX_ORDER :
      \A o \in req_order .. (order - 1) : o \in Orders /\ list_is_empty(fl, o) }

\* C15: every page_alloc makes buddy_find inspect free-list indices below
\* BUDDY_MAX_ORDER only, and a request no list can serve ends as exhaustion:
\* NULL, with no access past the array.
C15_FindStaysInRange ==
  [][\A f \in AllocFlags :
       (pc = "idle" /\ fault = "none" /\ AllocStep(f))
       => /\ FindInspected(buddy_free_list, ReqOrder(f)) \subseteq Orders
          /\ (\A o \in ReqOrder(f) .. (BUDDY_MAX_ORDER - 1) :
                list_is_empty(buddy_free_list, o))
             => (ret' = NULL /\ fault' = "none")
    ]_vars

Aligned(p, k) == p % Pow2(k) = 0

\* C16: after every step every block linked in free list k has a base that
\* is a multiple of 2^k; a block page_alloc returns for order k has such a
\* base; page_decref hands buddy_merge only a block aligned to its recorded
\* order, and the block surviving the merge is the lower-addressed one.
C16_Alignment ==
  [][/\ \A k \in Orders : \A i \in 1 .. Len(buddy_free_list'[k]) :
          Aligned(buddy_free_list'[k][i], k)
     /\ \A f \in AllocFlags :
          (pc = "idle" /\ fault = "none" /\ AllocStep(f) /\ ret' # NULL)
          => Aligned(ret', ReqOrder(f))
     /\ \A pp \in PageIdx :
          (pc = "idle" /\ fault = "none" /\ DecrefStep(pp) /\ last'.page # NULL)
          => /\ Aligned(pp, pages[pp].pp_order)
             /\ last'.page <= pp
    ]_vars

\* Some block and its buddy are both linked in free list k, k below the top.
FreeBuddyPair(fl) ==
  \E k \in 0 .. (BUDDY_MAX_ORDER - 2) : \E p \in SeqToSet(fl[k]) :
     BuddyOf(p, k) \in SeqToSet(fl[k])

\* A longer run from one seeding: the lowest block of the top order is the
\* free region, and the run has DeepOps calls to go.
InitDeep ==
  LET lo == 0
      hi == Pow2(BUDDY_MAX_ORDER - 1)
  IN /\ pages = [p \in PageIdx |->
                   [pp_order |-> IF SeedOrder(lo, hi, p) = NULL THEN 0 ELSE SeedOrder(lo, hi, p),
                    pp_free  |-> SeedOrder(lo, hi, p) # NULL,
                    pp_ref   |-> 0]]
     /\ buddy_free_list = [k \in Orders |-> SeedList(lo, hi, k, 0)]
     /\ mem = [p \in PageIdx |-> 1]
     /\ fault = "none"
     /\ held = [h \in PageIdx \X HoldOrders |-> 0]
     /\ ret = NULL
     /\ pc = "idle"
     /\ last = [op |-> "none", arg |-> 0, page |-> NULL]
     /\ nops = MaxOps - DeepOps
     /\ seeded = hi - lo
     /\ next_free = lo * PAGE_SIZE

SpecDeep == InitDeep /\ [][Next]_vars

\* C17: the seeded lists hold no two free buddies of one order below the top
\* order, and after every completed page_alloc and page_decref there is again
\* no order k < BUDDY_MAX_ORDER - 1 with a block and its buddy both in list k.
C17_FullCoalescing ==
  [][/\ last.op = "none" => ~FreeBuddyPair(buddy_free_list)
     /\ (/\ pc = "idle" /\ fault = "none"
         /\ (\E f \in AllocFlags : AllocStep(f)) \/ (\E pp \in PageIdx : DecrefStep(pp)))
        => ~FreeBuddyPair(buddy_free_list')
    ]_vars

\* C18: buddy_split and buddy_merge touch descriptors 0..npages-1 only: a
\* page_alloc never ends with a store outside the table, and the buddies
\* that the buddy_merge of a releasing page_decref examines are all in the
\* table, whatever the memory behind the table holds.
C18_DescriptorsInTable ==
  [][/\ \A f \in AllocFlags :
          (pc = "idle" /\ fault = "none" /\ AllocStep(f)) => fault' # "page_oob"
     /\ \A pp \in PageIdx :
          (pc = "idle" /\ fault = "none" /\ DecrefStep(pp))
          => /\ fault' # "page_oob"
             /\ \A oob \in BOOLEAN : page_decref(Now, pp, oob).fault # "page_oob"
    ]_vars

NoneHeld == \A h \in PageIdx \X HoldOrders : held[h] = 0

\* C19: in a run from the fully coalesced seeding of SpecDeep, in which every
\* block page_alloc returned got reference count 1 and was released by one
\* page_decref, the free lists are those of the seeding whenever no block is
\* held.
C19_Restoration ==
  (pc = "idle" /\ NoneHeld /\ (fault = "none" \/ last.op = "decref"))
  => /\ fault = "none"
     /\ buddy_free_list = [k \in Orders |-> SeedList(0, Pow2(BUDDY_MAX_ORDER - 1), k, 0)]

\* ------------------------------------------------------------- boot_alloc
\* Addresses are byte offsets from the start of physical memory; the
\* available memory ends at MemEnd.
MemEnd == npages * PAGE_SIZE

ROUNDUP(a, n) == ((a + n - 1) \div n) * n

\* Where the linker may have put the symbol end, and the sizes requested.
BootEnds == {1, PAGE_SIZE, PAGE_SIZE + 1}
BootSizes == {0, 1, PAGE_SIZE, PAGE_SIZE + 1, MemEnd}

\* boot_alloc(n) with the static pointer nf on entry: the new pointer and the
\* address returned. No path of the function panics.
boot_alloc(nf, end, n) ==
  LET nf1    == IF nf = 0 THEN ROUNDUP(end, PAGE_SIZE) ELSE nf
      result == nf1
      nf2    == IF n # 0 THEN ROUNDUP(nf1 + n, PAGE_SIZE) ELSE nf1
  IN [next_free |-> nf2, result |-> result, panic |-> FALSE]

\* Before the buddy allocator is set up: no descriptor is free, next_free is
\* NULL.
InitBoot ==
  /\ pages = [p \in PageIdx |-> [pp_order |-> 0, pp_free |-> FALSE, pp_ref |-> 0]]
  /\ buddy_free_list = [k \in Orders |-> <<>>]
  /\ mem = [p \in PageIdx |-> 1]
  /\ fault = "none"
  /\ held = [h \in PageIdx \X HoldOrders |-> 0]
  /\ ret = NULL
  /\ pc = "boot"
  /\ last = [op |-> "none", arg |-> 0, page |-> NULL]
  /\ nops = 0
  /\ seeded = 0
  /\ next_free = 0

BootAlloc(n, end) ==
  /\ pc = "boot"
  /\ fault = "none"
  /\ nops < MaxOps
  /\ LET B == boot_alloc(next_free, end, n)
     IN /\ next_free' = B.next_free
        /\ fault' = IF B.panic THEN "panic" ELSE "none"
        /\ ret' = IF B.panic THEN ret ELSE B.result
        /\ last' = [op |-> "boot_alloc", arg |-> n, page |-> NULL]
  /\ nops' = nops + 1
  /\ UNCHANGED <<pages, buddy_free_list, mem, held, pc, seeded>>

NextBoot == \E n \in BootSizes, end \in BootEnds : BootAlloc(n, end)

SpecBoot == InitBoot /\ [][NextBoot]_vars

BootStep(n) == nops' = nops + 1 /\ last'.op = "boot_alloc" /\ last'.arg = n

\* C20: a boot_alloc of n > 0 bytes that the memory left cannot hold panics
\* and returns no address; a region boot_alloc returns never extends past the
\* end of the available memory; boot_alloc(0) returns the next free page
\* address and leaves an initialised next_free as it was.
C20_BootAllocPanics ==
  [][\A n \in BootSizes :
       (pc = "boot" /\ fault = "none" /\ BootStep(n))
       => /\ (n > 0 /\ \E end \in BootEnds :
                         boot_alloc(next_free, end, 0).result + n > MemEnd)
             => fault' = "panic"
          /\ (n > 0 /\ fault' = "none") => ret' + n <= MemEnd
          /\ n = 0 => /\ ret' = next_free'
                      /\ next_free # 0 => next_free' = next_free
    ]_vars

====
